---- MODULE Spec2Model ----
(***************************************************************************)
(* Model of portfolio_analytics: RiskAnalyzer (risk_metrics.py) and        *)
(* PortfolioOptimizer (optimizer.py).                                      *)
(*                                                                         *)
(* Numbers.  A float is modelled as an exact rational <<n, d>> in lowest   *)
(* terms with d > 0, extended with the IEEE special values the code can    *)
(* produce: <<0, 0>> is NaN, <<1, 0>> is +inf and <<-1, 0>> is -inf.       *)
(* Rounding, overflow and signed zeros are not modelled.                   *)
(***************************************************************************)
EXTENDS Integers, Sequences, FiniteSets, TLC

VARIABLES self, returns, weights, portfolio_returns, mean_returns, cov_matrix,
          call, result, pc, target_returns, results, minimize_calls

vars == <<self, returns, weights, portfolio_returns, mean_returns, cov_matrix,
          call, result, pc, target_returns, results, minimize_calls>>

----------------------------------------------------------------------------
(* Bounds of the model *)

MaxPeriods == 3

MaxPortfolios == 3

WeightDen == 2

----------------------------------------------------------------------------
(* Float arithmetic *)

Abs(i) == IF i < 0 THEN -i ELSE i

Sign(i) == IF i < 0 THEN -1 ELSE IF i > 0 THEN 1 ELSE 0

RECURSIVE Gcd(_, _)
Gcd(a, b) == IF b = 0 THEN a ELSE Gcd(b, a % b)

Norm(n, d) ==
    IF d = 0 THEN <<Sign(n), 0>>
    ELSE LET g == Gcd(Abs(n), Abs(d))
         IN  <<(Sign(d) * n) \div g, Abs(d) \div g>>

Rat(n, d) == Norm(n, d)

NaN == <<0, 0>>

PosInf == <<1, 0>>

NegInf == <<-1, 0>>

Zero == <<0, 1>>

One == <<1, 1>>

IsNaN(a) == a = NaN

IsFinite(a) == a[2] # 0

FNeg(a) == <<-a[1], a[2]>>

FAdd(a, b) ==
    IF IsNaN(a) \/ IsNaN(b) THEN NaN
    ELSE IF a[2] = 0 /\ b[2] = 0 THEN (IF a = b THEN a ELSE NaN)
    ELSE IF a[2] = 0 THEN a
    ELSE IF b[2] = 0 THEN b
    ELSE Norm(a[1] * b[2] + b[1] * a[2], a[2] * b[2])

FSub(a, b) == FAdd(a, FNeg(b))

FMul(a, b) ==
    IF IsNaN(a) \/ IsNaN(b) THEN NaN
    ELSE IF a[2] = 0 \/ b[2] = 0
         THEN <<Sign(a[1]) * Sign(b[1]), 0>>
    ELSE LET g == Gcd(Abs(a[1]), b[2])
             h == Gcd(Abs(b[1]), a[2])
         IN  Norm((a[1] \div g) * (b[1] \div h),
                  (a[2] \div h) * (b[2] \div g))

(* IEEE division: x/0 is +-inf, 0/0 and inf/inf are NaN; no exception *)
FDiv(a, b) ==
    IF IsNaN(a) \/ IsNaN(b) THEN NaN
    ELSE IF a[2] = 0 /\ b[2] = 0 THEN NaN
    ELSE IF a[2] = 0 THEN <<a[1] * (IF b[1] < 0 THEN -1 ELSE 1), 0>>
    ELSE IF b[2] = 0 THEN Zero
    ELSE IF b[1] = 0 THEN <<Sign(a[1]), 0>>
    ELSE FMul(a, <<Sign(b[1]) * b[2], Abs(b[1])>>)

(* n1/d1 < n2/d2 for d1, d2 > 0, by integer parts and then the            *)
(* reciprocals of the fractional parts (no products, so no overflow)       *)
RECURSIVE FracLt(_, _, _, _)
FracLt(n1, d1, n2, d2) ==
    IF n1 \div d1 # n2 \div d2 THEN n1 \div d1 < n2 \div d2
    ELSE IF n2 % d2 = 0 THEN FALSE
    ELSE IF n1 % d1 = 0 THEN TRUE
    ELSE FracLt(d2, n2 % d2, d1, n1 % d1)

(* comparisons are false as soon as one side is NaN *)
FLt(a, b) ==
    /\ ~IsNaN(a)
    /\ ~IsNaN(b)
    /\ IF a[2] = 0 /\ b[2] = 0 THEN a[1] < b[1]
       ELSE IF a[2] = 0 THEN a[1] < 0
       ELSE IF b[2] = 0 THEN b[1] > 0
       ELSE FracLt(a[1], a[2], b[1], b[2])

FLe(a, b) == ~IsNaN(a) /\ ~IsNaN(b) /\ (a = b \/ FLt(a, b))

FMax(a, b) == IF FLt(a, b) THEN b ELSE a

FMin(a, b) == IF FLt(b, a) THEN b ELSE a

(* largest integer i with i <= a, for a finite a *)
Floor(a) == a[1] \div a[2]

RECURSIVE SumSeq(_)
SumSeq(s) == IF s = <<>> THEN Zero ELSE FAdd(s[1], SumSeq(Tail(s)))

Dot(u, v) == SumSeq([i \in 1..Len(u) |-> FMul(u[i], v[i])])

----------------------------------------------------------------------------
(* Values that involve a square root.  A real x of the form                *)
(* (rational) * sqrt(rational) is held exactly as its signed square        *)
(* sign(x) * x^2; products and quotients of such values are products and   *)
(* quotients of their signed squares, and the order is the same.           *)

Surd(a) == [ssq |-> FMul(a, IF FLt(a, Zero) THEN FNeg(a) ELSE a)]

np_sqrt(q) == [ssq |-> IF FLt(q, Zero) THEN NaN ELSE q]

SMul(x, y) == [ssq |-> FMul(x.ssq, y.ssq)]

SDiv(x, y) == [ssq |-> FDiv(x.ssq, y.ssq)]

SNeg(x) == [ssq |-> FNeg(x.ssq)]

SLt(x, y) == FLt(x.ssq, y.ssq)

SLe(x, y) == FLe(x.ssq, y.ssq)

----------------------------------------------------------------------------
(* Outcome of a call: a returned value or a raised exception *)

Return(v) == [tag |-> "return", val |-> v]

Raise(e, m) == [tag |-> "raise", exc |-> e, msg |-> m]

NoCall == [op |-> "none"]

NoResult == [tag |-> "none"]

----------------------------------------------------------------------------
(* pandas / numpy operations used by the code *)

NumColumns(df) == Len(df[1])

(* mutant of DataFrame_dot: the columns beyond the shorter operand are     *)
(* ignored instead of being rejected                                       *)
DataFrame_dot_truncating(df, w) ==
    LET k == IF NumColumns(df) < Len(w) THEN NumColumns(df) ELSE Len(w)
    IN  Return([t \in 1..Len(df) |->
                   SumSeq([i \in 1..k |-> FMul(df[t][i], w[i])])])

(* DataFrame.dot(ndarray): one dot product per row; shapes must agree *)
DataFrame_dot(df, w) ==
    IF NumColumns(df) # Len(w)
    THEN Raise("ValueError", "Dot product shape mismatch")
    ELSE Return([t \in 1..Len(df) |-> Dot(df[t], w)])

(* Series.mean(): NaN for an empty series (0/0) *)
Series_mean(s) == FDiv(SumSeq(s), Rat(Len(s), 1))

(* Series.var(): sample variance, divisor n - 1 (0/0 = NaN for n = 1) *)
Series_var(s) ==
    LET m == Series_mean(s)
    IN  FDiv(SumSeq([t \in 1..Len(s) |->
                        FMul(FSub(s[t], m), FSub(s[t], m))]),
             Rat(Len(s) - 1, 1))

(* Series.std() *)
Series_std(s) == np_sqrt(Series_var(s))

(* Series.skew(): kept symbolic; NaN for fewer than 3 observations *)
Series_skew(s) == [stat |-> "skew", of |-> s, is_nan |-> Len(s) < 3]

(* Series.kurtosis(): kept symbolic; NaN for fewer than 4 observations *)
Series_kurtosis(s) == [stat |-> "kurtosis", of |-> s, is_nan |-> Len(s) < 4]

(* Series.cumprod() *)
RECURSIVE CumProdTo(_, _)
CumProdTo(s, t) == IF t = 0 THEN One ELSE FMul(CumProdTo(s, t - 1), s[t])

cumprod(s) == [t \in 1..Len(s) |-> CumProdTo(s, t)]

(* Series.expanding().max() *)
RECURSIVE MaxTo(_, _)
MaxTo(s, t) == IF t = 1 THEN s[1] ELSE FMax(MaxTo(s, t - 1), s[t])

expanding_max(s) == [t \in 1..Len(s) |-> MaxTo(s, t)]

(* Series.min(): NaN entries are skipped; NaN when nothing is left *)
RECURSIVE MinOfSeq(_)
MinOfSeq(s) ==
    IF Len(s) = 1 THEN s[1] ELSE FMin(s[1], MinOfSeq(Tail(s)))

Series_min(s) ==
    LET valid == SelectSeq(s, LAMBDA x : ~IsNaN(x))
    IN  IF valid = <<>> THEN NaN ELSE MinOfSeq(valid)

(* ascending sort *)
RECURSIVE Insert(_, _)
Insert(x, s) ==
    IF s = <<>> THEN <<x>>
    ELSE IF FLe(x, s[1]) THEN <<x>> \o s
    ELSE <<s[1]>> \o Insert(x, Tail(s))

RECURSIVE np_sort(_)
np_sort(s) == IF s = <<>> THEN <<>> ELSE Insert(s[1], np_sort(Tail(s)))

(* mutant of np_percentile: the lower order statistic, no interpolation *)
np_percentile_lower(a, q) ==
    IF ~(FLe(Zero, q) /\ FLe(q, Rat(100, 1)))
    THEN Raise("ValueError", "Percentiles must be in the range [0, 100]")
    ELSE Return(np_sort(a)[Floor(FDiv(FMul(Rat(Len(a) - 1, 1), q),
                                      Rat(100, 1))) + 1])

(* np.percentile(a, q), default method 'linear': the virtual index        *)
(* (n-1)*q/100 is split into its floor and its fraction gamma, and the     *)
(* result is interpolated between the two neighbouring order statistics;   *)
(* q outside [0, 100] is rejected.                                         *)
np_percentile(a, q) ==
    IF ~(FLe(Zero, q) /\ FLe(q, Rat(100, 1)))
    THEN Raise("ValueError", "Percentiles must be in the range [0, 100]")
    ELSE LET arr   == np_sort(a)
             n     == Len(a)
             vi    == FDiv(FMul(Rat(n - 1, 1), q), Rat(100, 1))
             prev  == Floor(vi)
             next  == IF prev + 1 > n - 1 THEN n - 1 ELSE prev + 1
             gamma == FSub(vi, Rat(prev, 1))
         IN  Return(FAdd(arr[prev + 1],
                         FMul(gamma, FSub(arr[next + 1], arr[prev + 1]))))

----------------------------------------------------------------------------
(* RiskAnalyzer (risk_metrics.py) *)

(* names bound at module level by the import statements *)
ModuleNames == {"np", "pd", "Dict", "Optional"}

(* norm.ppf(confidence_level), kept symbolic *)
norm_ppf(c) == [ppf |-> c]

(* -(mean - z_score * std), kept symbolic in z_score and std *)
ParametricVaR(pr, c) ==
    [neg_of |-> [mean |-> Series_mean(pr), z_score |-> norm_ppf(c),
                 std_of |-> pr]]

(* mutant of calculate_var: an unknown method falls back to 'historical' *)
calculate_var_fallback(pr, confidence_level, method) ==
    IF method = "parametric"
    THEN Raise("NameError", "name 'norm' is not defined")
    ELSE LET p == np_percentile(pr, FMul(FSub(One, confidence_level),
                                          Rat(100, 1)))
         IN  IF p.tag = "raise" THEN p ELSE Return(FNeg(p.val))

calculate_var(pr, confidence_level, method) ==
    IF method = "historical"
    THEN LET p == np_percentile(pr, FMul(FSub(One, confidence_level),
                                          Rat(100, 1)))
         IN  IF p.tag = "raise" THEN p ELSE Return(FNeg(p.val))
    ELSE IF method = "parametric"
    THEN IF "norm" \notin ModuleNames
         THEN Raise("NameError", "name 'norm' is not defined")
         ELSE Return(ParametricVaR(pr, confidence_level))
    ELSE Raise("ValueError", "Unsupported VaR method: " \o method)

(* mutant of calculate_expected_shortfall: the tail is taken strictly      *)
(* below -VaR                                                              *)
calculate_expected_shortfall_strict(pr, confidence_level) ==
    LET var == calculate_var(pr, confidence_level, "historical")
    IN  IF var.tag = "raise" THEN var
        ELSE LET tail == SelectSeq(pr, LAMBDA r : FLt(r, FNeg(var.val)))
             IN  Return(FNeg(Series_mean(tail)))

(* mutant of calculate_expected_shortfall: the mean of all returns, the    *)
(* mask on -VaR left out                                                   *)
calculate_expected_shortfall_unconditional(pr, confidence_level) ==
    LET var == calculate_var(pr, confidence_level, "historical")
    IN  IF var.tag = "raise" THEN var
        ELSE Return(FNeg(Series_mean(pr)))

calculate_expected_shortfall(pr, confidence_level) ==
    LET var == calculate_var(pr, confidence_level, "historical")
    IN  IF var.tag = "raise" THEN var
        ELSE LET tail == SelectSeq(pr, LAMBDA r : FLe(r, FNeg(var.val)))
             IN  Return(FNeg(Series_mean(tail)))

cumulative_returns(pr) == cumprod([t \in 1..Len(pr) |-> FAdd(One, pr[t])])

(* mutant of rolling_max: the wealth curve itself, no running maximum *)
rolling_max_current(pr) == cumulative_returns(pr)

rolling_max(pr) == expanding_max(cumulative_returns(pr))

drawdowns(pr) ==
    [t \in 1..Len(pr) |->
        FSub(FDiv(cumulative_returns(pr)[t], rolling_max(pr)[t]), One)]

calculate_max_drawdown(pr) == Return(Series_min(drawdowns(pr)))

downside_returns(pr, target_return) ==
    SelectSeq([t \in 1..Len(pr) |-> FSub(pr[t], target_return)],
              LAMBDA e : FLt(e, Zero))

downside_std(pr, target_return) ==
    LET d == downside_returns(pr, target_return)
    IN  SMul(np_sqrt(Series_mean([i \in 1..Len(d) |-> FMul(d[i], d[i])])),
             np_sqrt(Rat(252, 1)))

calculate_sortino_ratio(pr, risk_free_rate, target_return) ==
    LET dstd            == downside_std(pr, target_return)
        expected_return == FMul(Series_mean(pr), Rat(252, 1))
    IN  IF dstd.ssq # Zero
        THEN Return(SDiv(Surd(FSub(expected_return, risk_free_rate)), dstd))
        ELSE Return([ssq |-> PosInf])

(* mutant of calculate_risk_metrics: a NaN Sortino ratio aborts the report *)
calculate_risk_metrics_checked(pr) ==
    IF IsNaN(calculate_sortino_ratio(pr, Rat(1, 50), Zero).val.ssq)
    THEN Raise("ValueError", "undefined risk metric")
    ELSE Return(
        [volatility    |-> SMul(Series_std(pr), np_sqrt(Rat(252, 1))),
         var_95        |-> calculate_var(pr, Rat(19, 20), "historical").val,
         es_95         |-> calculate_expected_shortfall(pr, Rat(19, 20)).val,
         skewness      |-> Series_skew(pr),
         kurtosis      |-> Series_kurtosis(pr),
         max_drawdown  |-> calculate_max_drawdown(pr).val,
         sortino_ratio |-> calculate_sortino_ratio(pr, Rat(1, 50), Zero).val])

(* the dictionary literal evaluates its entries in order with the default *)
(* arguments (confidence 0.95, historical; risk-free rate 0.02, target     *)
(* 0.0); an exception in an entry leaves the method (of the entries'       *)
(* expressions only the two that reach np.percentile can raise),           *)
(* otherwise every value is stored                                         *)
calculate_risk_metrics(pr) ==
    IF calculate_var(pr, Rat(19, 20), "historical").tag = "raise"
    THEN calculate_var(pr, Rat(19, 20), "historical")
    ELSE IF calculate_expected_shortfall(pr, Rat(19, 20)).tag = "raise"
    THEN calculate_expected_shortfall(pr, Rat(19, 20))
    ELSE Return(
        [volatility    |-> SMul(Series_std(pr), np_sqrt(Rat(252, 1))),
         var_95        |-> calculate_var(pr, Rat(19, 20), "historical").val,
         es_95         |-> calculate_expected_shortfall(pr, Rat(19, 20)).val,
         skewness      |-> Series_skew(pr),
         kurtosis      |-> Series_kurtosis(pr),
         max_drawdown  |-> calculate_max_drawdown(pr).val,
         sortino_ratio |-> calculate_sortino_ratio(pr, Rat(1, 50), Zero).val])

----------------------------------------------------------------------------
(* Inputs *)

RetVals == {Rat(-2, 1), Rat(-1, 1), Zero, Rat(1, 2)}

Rows1 == {<<v>> : v \in RetVals}

Rows2 == {<<Rat(1, 2), Rat(1, 2)>>, <<Zero, Zero>>, <<Rat(1, 2), Zero>>,
          <<Rat(-1, 2), Zero>>}

ReturnsData ==
    UNION {[1..T -> Rows1] \cup [1..T -> Rows2] : T \in 1..MaxPeriods}

WeightVectors == {<<>>, <<One>>, <<Rat(3, 2), Rat(-1, 2)>>}

ConfidenceLevels == {Rat(-1, 2), Zero, Rat(1, 4), Rat(19, 20), One, Rat(3, 2)}

Methods == {"historical", "parametric", "monte_carlo", "bootstrap"}

RiskFreeRates == {Zero, Rat(1, 50)}

TargetReturns == {Rat(-1, 1), Zero, Rat(1, 2)}

----------------------------------------------------------------------------
(* Actions of the RiskAnalyzer *)

Init ==
    /\ self = "None"
    /\ returns = <<>>
    /\ weights = <<>>
    /\ portfolio_returns = <<>>
    /\ mean_returns = <<>>
    /\ cov_matrix = <<>>
    /\ call = NoCall
    /\ result = NoResult
    /\ pc = "idle"
    /\ target_returns = <<>>
    /\ results = <<>>
    /\ minimize_calls = <<>>

(* the constructor call of a behaviour: one attempt, which may fail *)
RiskAnalyzer_init ==
    /\ self = "None"
    /\ call = NoCall
    /\ \E returns_data \in ReturnsData, w \in WeightVectors :
        LET pr == DataFrame_dot(returns_data, w)
        IN  /\ call' = [op |-> "RiskAnalyzer", returns_data |-> returns_data,
                        weights |-> w]
            /\ IF pr.tag = "raise"
               THEN /\ result' = pr
                    /\ UNCHANGED <<self, returns, weights, portfolio_returns>>
               ELSE /\ self' = "RiskAnalyzer"
                    /\ returns' = returns_data
                    /\ weights' = w
                    /\ portfolio_returns' = pr.val
                    /\ result' = Return("RiskAnalyzer")
    /\ UNCHANGED <<mean_returns, cov_matrix, pc, target_returns,
                   results, minimize_calls>>

(* mutant of AnalyzerFrame: the percentile sorts the cached series in     *)
(* place                                                                   *)
AnalyzerFrame_sorting ==
    /\ portfolio_returns' = np_sort(portfolio_returns)
    /\ UNCHANGED <<self, returns, weights, mean_returns, cov_matrix, pc,
                   target_returns, results, minimize_calls>>

AnalyzerFrame ==
    UNCHANGED <<self, returns, weights, portfolio_returns, mean_returns,
                cov_matrix, pc, target_returns, results, minimize_calls>>

CalculateVar ==
    /\ self = "RiskAnalyzer"
    /\ \E c \in ConfidenceLevels, m \in Methods :
        /\ call' = [op |-> "calculate_var", confidence_level |-> c,
                    method |-> m]
        /\ result' = calculate_var(portfolio_returns, c, m)
        /\ AnalyzerFrame

CalculateExpectedShortfall ==
    /\ self = "RiskAnalyzer"
    /\ \E c \in ConfidenceLevels :
        /\ call' = [op |-> "calculate_expected_shortfall",
                    confidence_level |-> c]
        /\ result' = calculate_expected_shortfall(portfolio_returns, c)
        /\ AnalyzerFrame

CalculateMaxDrawdown ==
    /\ self = "RiskAnalyzer"
    /\ call' = [op |-> "calculate_max_drawdown"]
    /\ result' = calculate_max_drawdown(portfolio_returns)
    /\ AnalyzerFrame

CalculateSortinoRatio ==
    /\ self = "RiskAnalyzer"
    /\ \E rf \in RiskFreeRates, tr \in TargetReturns :
        /\ call' = [op |-> "calculate_sortino_ratio", risk_free_rate |-> rf,
                    target_return |-> tr]
        /\ result' = calculate_sortino_ratio(portfolio_returns, rf, tr)
        /\ AnalyzerFrame

CalculateRiskMetrics ==
    /\ self = "RiskAnalyzer"
    /\ call' = [op |-> "calculate_risk_metrics"]
    /\ result' = calculate_risk_metrics(portfolio_returns)
    /\ AnalyzerFrame

NextRisk ==
    \/ RiskAnalyzer_init
    \/ CalculateVar
    \/ CalculateExpectedShortfall
    \/ CalculateMaxDrawdown
    \/ CalculateSortinoRatio
    \/ CalculateRiskMetrics

SpecRisk == Init /\ [][NextRisk]_vars

----------------------------------------------------------------------------
(* PortfolioOptimizer (optimizer.py) *)

Column(df, j) == [t \in 1..Len(df) |-> df[t][j]]

(* DataFrame.mean(): one mean per column *)
DataFrame_mean(df) ==
    [j \in 1..NumColumns(df) |-> Series_mean(Column(df, j))]

(* DataFrame.cov(): sample covariance, divisor T - 1 (NaN for T = 1) *)
DataFrame_cov(df) ==
    LET m == DataFrame_mean(df)
    IN  [i \in 1..NumColumns(df) |->
            [j \in 1..NumColumns(df) |->
                FDiv(SumSeq([t \in 1..Len(df) |->
                                FMul(FSub(df[t][i], m[i]),
                                     FSub(df[t][j], m[j]))]),
                     Rat(Len(df) - 1, 1))]]

Annualized == Rat(252, 1)

(* np.dot(weights.T, np.dot(cov, weights)) *)
QuadForm(cov, w) == Dot(w, [i \in 1..Len(w) |-> Dot(cov[i], w)])

(* mutant of np_linspace: the endpoint left out (step over num) *)
np_linspace_no_endpoint(start, stop, num) ==
    [i \in 1..num |->
        FAdd(FMul(Rat(i - 1, 1), FDiv(FSub(stop, start), Rat(num, 1))),
             start)]

(* np.linspace(start, stop, num): start + i*step, the last sample set to  *)
(* stop; a single sample is start                                          *)
np_linspace(start, stop, num) ==
    LET div  == IF num > 1 THEN num - 1 ELSE 1
        step == FDiv(FSub(stop, start), Rat(div, 1))
    IN  [i \in 1..num |->
            IF num > 1 /\ i = num THEN stop
            ELSE FAdd(FMul(Rat(i - 1, 1), step), start)]

RECURSIVE np_min(_)
np_min(s) == IF Len(s) = 1 THEN s[1] ELSE FMin(s[1], np_min(Tail(s)))

RECURSIVE np_max(_)
np_max(s) == IF Len(s) = 1 THEN s[1] ELSE FMax(s[1], np_max(Tail(s)))

(* constraint dictionaries {'type': ..., 'fun': ...}; arg is the value the *)
(* lambda captures                                                         *)
SumToOne == [type |-> "eq", fun |-> "np.sum(x) - 1", arg |-> Zero]

LongOnly == [type |-> "ineq", fun |-> "x", arg |-> Zero]

TargetReturn(t) ==
    [type |-> "eq", fun |-> "np.sum(mean_returns * x) - target_return",
     arg |-> t]

(* a caller-supplied constraint: at most arg in the first asset *)
CapFirst(c) == [type |-> "ineq", fun |-> "arg - x[0]", arg |-> c]

ConstraintValue(c, mu, x) ==
    IF c.fun = "np.sum(x) - 1" THEN <<FSub(SumSeq(x), One)>>
    ELSE IF c.fun = "x" THEN x
    ELSE IF c.fun = "arg - x[0]" THEN <<FSub(c.arg, x[1])>>
    ELSE <<FSub(Dot(mu, x), c.arg)>>

Satisfies(c, mu, x) ==
    LET v == ConstraintValue(c, mu, x)
    IN  \A i \in 1..Len(v) :
            IF c.type = "eq" THEN v[i] = Zero ELSE FLe(Zero, v[i])

(* x0 = [1/n] * n *)
UniformWeights(n) == [i \in 1..n |-> Rat(1, n)]

NaNVector(n) == [i \in 1..n |-> NaN]

(* weight vectors the solver can evaluate: x0 and the vectors with        *)
(* entries k/den in [0, 1]                                                 *)
WeightGrid(n, den) ==
    [1..n -> {Rat(k, den) : k \in 0..den}] \cup {UniformWeights(n)}

(* scipy.optimize.minimize(fun, x0, method='SLSQP', constraints=...).      *)
(* The solver is outside the repository; it is modelled by its contract,   *)
(* as the set of OptimizeResult values it may hand back:                   *)
(*  - success: a minimiser of fun over the vectors satisfying every        *)
(*    constraint (fun is given as its table over the weight grid),         *)
(*    reachable only when fun is finite at x0;                             *)
(*  - no convergence, the iterate still at x0;                             *)
(*  - no convergence with a NaN iterate, when fun is not finite at x0.     *)
minimize(fun, x0, constraints, mu) ==
    LET feasible == {x \in DOMAIN fun :
                        \A k \in 1..Len(constraints) :
                            Satisfies(constraints[k], mu, x)}
        valued   == {x \in feasible : ~IsNaN(fun[x].ssq)}
        best     == {x \in valued : \A y \in valued : SLe(fun[x], fun[y])}
    IN  IF IsFinite(fun[x0].ssq)
        THEN {[x |-> x, success |-> TRUE] : x \in best}
             \cup {[x |-> x0, success |-> FALSE]}
        ELSE {[x |-> x0, success |-> FALSE],
              [x |-> NaNVector(Len(x0)), success |-> FALSE]}

(* one invocation of the solver: what it was given and what it gave back *)
MinimizeCall(x0, constraints, res) ==
    [x0 |-> x0, method |-> "SLSQP", constraints |-> constraints,
     result |-> res]

(* mutant of negative_sharpe_ratio: the reference rate 0.02 in place of   *)
(* the rate of the call                                                    *)
negative_sharpe_ratio_reference_rate(mu, cov, risk_free_rate, w) ==
    SNeg(SDiv(Surd(FSub(Dot(mu, w), Rat(1, 50))), np_sqrt(QuadForm(cov, w))))

negative_sharpe_ratio(mu, cov, risk_free_rate, w) ==
    LET portfolio_return == Dot(mu, w)
        portfolio_std    == np_sqrt(QuadForm(cov, w))
        sharpe == SDiv(Surd(FSub(portfolio_return, risk_free_rate)),
                       portfolio_std)
    IN  SNeg(sharpe)

None == [is_none |-> TRUE, items |-> <<>>]

List(items) == [is_none |-> FALSE, items |-> items]

(* mutant of SharpeConstraints: the caller's constraints replace the      *)
(* long-only constraint                                                    *)
SharpeConstraints_replacing(constraints) ==
    IF constraints.is_none \/ constraints.items = <<>>
    THEN <<SumToOne, LongOnly>>
    ELSE <<SumToOne>> \o constraints.items

(* the constraint list optimize_sharpe_ratio passes to the solver *)
SharpeConstraints(constraints) ==
    <<SumToOne, LongOnly>>
        \o (IF constraints.is_none \/ constraints.items = <<>>
            THEN <<>> ELSE constraints.items)

(* the constraint list of one step of the frontier sweep *)
FrontierConstraints(target_return) ==
    <<SumToOne, TargetReturn(target_return), LongOnly>>

(* one record of the frontier: target, realised volatility, weights *)
FrontierPoint(cov, target_return, x) ==
    [return |-> target_return, volatility |-> np_sqrt(QuadForm(cov, x)),
     weights |-> x]

(* mutant of calculate_metrics: the weights are rescaled to sum to 1 *)
calculate_metrics_normalized(mu, cov, w) ==
    LET x                == [i \in 1..Len(w) |-> FDiv(w[i], SumSeq(w))]
        portfolio_return == Dot(mu, x)
        portfolio_std    == np_sqrt(QuadForm(cov, x))
    IN  Return([expected_return |-> portfolio_return,
                volatility      |-> portfolio_std,
                sharpe_ratio    |-> SDiv(Surd(FSub(portfolio_return,
                                                   Rat(1, 50))),
                                         portfolio_std)])

calculate_metrics(mu, cov, w) ==
    LET portfolio_return == Dot(mu, w)
        portfolio_std    == np_sqrt(QuadForm(cov, w))
    IN  Return([expected_return |-> portfolio_return,
                volatility      |-> portfolio_std,
                sharpe_ratio    |-> SDiv(Surd(FSub(portfolio_return,
                                                   Rat(1, 50))),
                                         portfolio_std)])

(* the grid of the sweep holds the weights that reach each target when    *)
(* there are two assets: multiples of 1/(num_portfolios - 1)               *)
FrontierDen(num_portfolios) ==
    IF num_portfolios > 1
    THEN (WeightDen * (num_portfolios - 1))
             \div Gcd(WeightDen, num_portfolios - 1)
    ELSE WeightDen

----------------------------------------------------------------------------
(* Inputs of the optimizer *)

(* the rows of the return data, in a fixed order *)
RowOrder ==
    <<<<Rat(-2, 1)>>, <<Rat(-1, 1)>>, <<Zero>>, <<Rat(1, 2)>>,
      <<Rat(1, 2), Rat(1, 2)>>, <<Zero, Zero>>, <<Rat(1, 2), Zero>>,
      <<Rat(-1, 2), Zero>>>>

RowRank(row) == CHOOSE k \in 1..Len(RowOrder) : RowOrder[k] = row

(* mean() and cov() do not depend on the order of the periods: the        *)
(* optimizer is built over one ordering of each collection of rows         *)
OptimizerData ==
    {d \in ReturnsData :
        \A t \in 1..(Len(d) - 1) : RowRank(d[t]) <= RowRank(d[t + 1])}

ExtraConstraints ==
    {None, List(<<>>), List(<<CapFirst(One), CapFirst(Rat(1, 2))>>)}

(* weight vectors handed to calculate_metrics: on and off the simplex *)
MetricWeights(n) ==
    {UniformWeights(n), [i \in 1..n |-> One],
     [i \in 1..n |-> IF i = n THEN Rat(-1, 1) ELSE Rat(2, 1)]}

----------------------------------------------------------------------------
(* Actions of the PortfolioOptimizer *)

PortfolioOptimizer_init ==
    /\ self = "None"
    /\ \E returns_data \in OptimizerData :
        /\ self' = "PortfolioOptimizer"
        /\ returns' = returns_data
        /\ mean_returns' =
               [j \in 1..NumColumns(returns_data) |->
                   FMul(DataFrame_mean(returns_data)[j], Annualized)]
        /\ cov_matrix' =
               [i \in 1..NumColumns(returns_data) |->
                   [j \in 1..NumColumns(returns_data) |->
                       FMul(DataFrame_cov(returns_data)[i][j], Annualized)]]
        /\ call' = [op |-> "PortfolioOptimizer", returns_data |-> returns_data]
        /\ result' = Return("PortfolioOptimizer")
        /\ UNCHANGED <<weights, portfolio_returns, pc, target_returns,
                       results, minimize_calls>>

OptimizerFrame ==
    UNCHANGED <<self, returns, weights, portfolio_returns, mean_returns,
                cov_matrix>>

(* optimize_sharpe_ratio, up to the solver call: the merged constraints *)
OptimizeSharpeRatio_call ==
    /\ self = "PortfolioOptimizer"
    /\ pc = "idle"
    /\ \E rf \in RiskFreeRates, extra \in ExtraConstraints :
           call' = [op |-> "optimize_sharpe_ratio", risk_free_rate |-> rf,
                    constraints |-> extra]
    /\ minimize_calls' = <<>>
    /\ result' = NoResult
    /\ pc' = "optimize_sharpe_ratio"
    /\ UNCHANGED <<target_returns, results>>
    /\ OptimizerFrame

(* the solver call and the return of (result.x, optimal_sharpe) *)
OptimizeSharpeRatio_return ==
    /\ pc = "optimize_sharpe_ratio"
    /\ LET num_assets  == NumColumns(returns)
           constraints == SharpeConstraints(call.constraints)
           x0          == UniformWeights(num_assets)
       IN  \E fun \in {[w \in WeightGrid(num_assets, WeightDen) |->
                           negative_sharpe_ratio(mean_returns, cov_matrix,
                                                 call.risk_free_rate, w)]} :
           \E res \in minimize(fun, x0, constraints, mean_returns) :
               /\ minimize_calls' = <<MinimizeCall(x0, constraints, res)>>
               /\ result' = Return(
                      [weights |-> res.x,
                       sharpe  |-> SNeg(negative_sharpe_ratio(
                                      mean_returns, cov_matrix,
                                      call.risk_free_rate, res.x))])
    /\ pc' = "idle"
    /\ UNCHANGED <<call, target_returns, results>>
    /\ OptimizerFrame

(* efficient_frontier, up to the loop: the sweep of target returns *)
EfficientFrontier_call ==
    /\ self = "PortfolioOptimizer"
    /\ pc = "idle"
    /\ \E num_portfolios \in 0..MaxPortfolios :
        /\ call' = [op |-> "efficient_frontier",
                    num_portfolios |-> num_portfolios]
        /\ target_returns' = np_linspace(np_min(mean_returns),
                                         np_max(mean_returns), num_portfolios)
    /\ results' = <<>>
    /\ minimize_calls' = <<>>
    /\ result' = NoResult
    /\ pc' = "efficient_frontier"
    /\ OptimizerFrame

(* one iteration of the loop: solve for the next target, record the point *)
EfficientFrontier_loop ==
    /\ pc = "efficient_frontier"
    /\ Len(results) < Len(target_returns)
    /\ LET target_return == target_returns[Len(results) + 1]
           constraints   == FrontierConstraints(target_return)
           x0            == UniformWeights(NumColumns(returns))
       IN  \E fun \in {[x \in WeightGrid(NumColumns(returns),
                                         FrontierDen(Len(target_returns))) |->
                           np_sqrt(QuadForm(cov_matrix, x))]} :
           \E res \in minimize(fun, x0, constraints, mean_returns) :
               /\ results' = Append(results,
                                    FrontierPoint(cov_matrix, target_return,
                                                  res.x))
               /\ minimize_calls' =
                      Append(minimize_calls,
                             MinimizeCall(x0, constraints, res))
    /\ UNCHANGED <<call, result, pc, target_returns>>
    /\ OptimizerFrame

(* after the loop: return pd.DataFrame(results) *)
EfficientFrontier_return ==
    /\ pc = "efficient_frontier"
    /\ Len(results) = Len(target_returns)
    /\ result' = Return(results)
    /\ pc' = "idle"
    /\ target_returns' = <<>>
    /\ results' = <<>>
    /\ UNCHANGED <<call, minimize_calls>>
    /\ OptimizerFrame

(* calculate_metrics: no solver call, nothing stored *)
CalculateMetrics ==
    /\ self = "PortfolioOptimizer"
    /\ pc = "idle"
    /\ \E w \in MetricWeights(NumColumns(returns)) :
           /\ call' = [op |-> "calculate_metrics", weights |-> w]
           /\ result' = calculate_metrics(mean_returns, cov_matrix, w)
    /\ minimize_calls' = <<>>
    /\ UNCHANGED <<pc, target_returns, results>>
    /\ OptimizerFrame

NextOpt ==
    \/ PortfolioOptimizer_init
    \/ CalculateMetrics
    \/ OptimizeSharpeRatio_call
    \/ OptimizeSharpeRatio_return
    \/ EfficientFrontier_call
    \/ EfficientFrontier_loop
    \/ EfficientFrontier_return

SpecOpt == Init /\ [][NextOpt]_vars

----------------------------------------------------------------------------
(* Properties of the RiskAnalyzer *)

AllReturnsNonNegative ==
    \A t \in 1..Len(portfolio_returns) : FLe(Zero, portfolio_returns[t])

(* C4: calculate_max_drawdown() returns a value <= 0 for every             *)
(* portfolio-return series, and exactly 0 when every return is >= 0.       *)
C4_MaxDrawdownNonPositive ==
    call.op = "calculate_max_drawdown" =>
        /\ result.tag = "return"
        /\ FLe(result.val, Zero)
        /\ AllReturnsNonNegative => result.val = Zero

(* the wealth curve C_t = prod(1 + r_i), i <= t *)
Wealth(t) == cumulative_returns(portfolio_returns)[t]

(* C5 as stated: whenever the wealth curve decreases at some period, the   *)
(* maximum drawdown is strictly negative.                                  *)
C5_ZeroOnlyIfNonDecreasing ==
    (/\ call.op = "calculate_max_drawdown"
     /\ \E t \in 2..Len(portfolio_returns) : FLt(Wealth(t), Wealth(t - 1)))
    => (result.tag = "return" /\ FLt(result.val, Zero))

(* C5 amended: whenever the wealth curve decreases from a positive level,  *)
(* the maximum drawdown is strictly negative.                              *)
C5_NegativeAfterFallFromPositive ==
    (/\ call.op = "calculate_max_drawdown"
     /\ \E t \in 2..Len(portfolio_returns) :
            /\ FLt(Wealth(t), Wealth(t - 1))
            /\ FLt(Zero, Wealth(t - 1)))
    => (result.tag = "return" /\ FLt(result.val, Zero))

(* a fall from a positive level after an earlier fall from a negative one *)
C5_Witness ==
    /\ call.op = "calculate_max_drawdown"
    /\ Len(portfolio_returns) = 3
    /\ FLt(Wealth(1), Zero)
    /\ FLt(Zero, Wealth(2))
    /\ FLt(Wealth(3), Wealth(2))
    /\ FLt(result.val, Zero)

(* C6: with no period below target_return, calculate_sortino_ratio returns *)
(* the +infinity sentinel (not NaN, not an error, not a finite value).     *)
C6_SortinoInfWithoutDownside ==
    (/\ call.op = "calculate_sortino_ratio"
     /\ \A t \in 1..Len(portfolio_returns) :
            ~FLt(portfolio_returns[t], call.target_return))
    => (result.tag = "return" /\ result.val.ssq = PosInf)

(* the k-th smallest entry of s (k from 1), found by counting *)
OrderStatistic(s, k) ==
    CHOOSE v \in {s[i] : i \in 1..Len(s)} :
        /\ Cardinality({i \in 1..Len(s) : FLt(s[i], v)}) < k
        /\ k <= Cardinality({i \in 1..Len(s) : FLe(s[i], v)})

(* the q-quantile (0 <= q <= 1) with linear interpolation between          *)
(* adjacent order statistics                                               *)
LinearQuantile(s, q) ==
    LET n  == Len(s)
        h  == FMul(Rat(n - 1, 1), q)
        k  == Floor(h)
        lo == OrderStatistic(s, k + 1)
        hi == OrderStatistic(s, IF k + 2 > n THEN n ELSE k + 2)
    IN  FAdd(FMul(FSub(One, FSub(h, Rat(k, 1))), lo),
             FMul(FSub(h, Rat(k, 1)), hi))

InsideUnitInterval(c) == FLt(Zero, c) /\ FLt(c, One)

(* C7: for c in (0, 1), calculate_var(c, 'historical') is the negated      *)
(* (1 - c) quantile of the portfolio returns, linearly interpolated        *)
(* between adjacent order statistics.                                      *)
C7_HistoricalVarIsNegatedQuantile ==
    (/\ call.op = "calculate_var"
     /\ call.method = "historical"
     /\ InsideUnitInterval(call.confidence_level))
    => /\ result.tag = "return"
       /\ result.val = FNeg(LinearQuantile(portfolio_returns,
                                           FSub(One, call.confidence_level)))

(* a 95% VaR that falls strictly between two observations *)
C7_Witness ==
    /\ call.op = "calculate_var"
    /\ call.method = "historical"
    /\ call.confidence_level = Rat(19, 20)
    /\ Len(portfolio_returns) = 3
    /\ result.tag = "return"
    /\ \A t \in 1..3 : result.val # FNeg(portfolio_returns[t])

(* C8: for at least 2 periods and c in (0, 1), calculate_var(c,            *)
(* 'parametric') completes and returns -(mean - z*std).                    *)
C8_ParametricVarReturns ==
    (/\ call.op = "calculate_var"
     /\ call.method = "parametric"
     /\ Len(portfolio_returns) >= 2
     /\ InsideUnitInterval(call.confidence_level))
    => /\ result.tag = "return"
       /\ result.val = ParametricVaR(portfolio_returns, call.confidence_level)

C10_LevelOutsideOpenIntervalRaises ==
    (/\ \/ call.op = "calculate_var" /\ call.method = "historical"
        \/ call.op = "calculate_expected_shortfall"
     /\ ~InsideUnitInterval(call.confidence_level))
    => result.tag = "raise"

(* the returns at or below the threshold v, the others replaced by 0 *)
TailTerms(s, v) == [t \in 1..Len(s) |-> IF FLe(s[t], v) THEN s[t] ELSE Zero]

TailCount(s, v) == Cardinality({t \in 1..Len(s) : FLe(s[t], v)})

(* C11: calculate_expected_shortfall(c) is the negated mean of the         *)
(* portfolio returns at or below -VaR_historical(c); with no return at or  *)
(* below -VaR it is VaR itself; it is never NaN, and it is defined for     *)
(* every c in (0, 1).                                                      *)
C11_ShortfallIsNegatedTailMean ==
    (/\ call.op = "calculate_expected_shortfall"
     /\ InsideUnitInterval(call.confidence_level))
    => /\ result.tag = "return"
       /\ ~IsNaN(result.val)
       /\ LET threshold == LinearQuantile(portfolio_returns,
                                          FSub(One, call.confidence_level))
              n         == TailCount(portfolio_returns, threshold)
          IN  IF n = 0 THEN result.val = FNeg(threshold)
              ELSE FMul(result.val, Rat(n, 1))
                       = FNeg(SumSeq(TailTerms(portfolio_returns, threshold)))

(* a shortfall averaged over two of three distinct returns *)
C11_Witness ==
    /\ call.op = "calculate_expected_shortfall"
    /\ call.confidence_level = Rat(1, 4)
    /\ result.tag = "return"
    /\ Len(portfolio_returns) = 3
    /\ TailCount(portfolio_returns, FNeg(calculate_var(
           portfolio_returns, Rat(1, 4), "historical").val)) = 2
    /\ \A t \in 1..3 : result.val # FNeg(portfolio_returns[t])

(* C12: constructing a RiskAnalyzer with a weight vector whose length      *)
(* differs from the number of columns fails with a shape-mismatch error,   *)
(* whatever the length, and no analyzer is produced; an analyzer that      *)
(* exists has one weight per column and one portfolio return per period.   *)
C12_ShapeMismatchFailsAtConstruction ==
    /\ (/\ call.op = "RiskAnalyzer"
        /\ Len(call.weights) # NumColumns(call.returns_data))
       => /\ result.tag = "raise"
          /\ result.exc = "ValueError"
          /\ result.msg = "Dot product shape mismatch"
          /\ self = "None"
          /\ portfolio_returns = <<>>
    /\ self = "RiskAnalyzer"
       => /\ Len(weights) = NumColumns(returns)
          /\ Len(portfolio_returns) = Len(returns)

(* a two-column frame with one weight, and no analyzer *)
C12_Witness ==
    /\ call.op = "RiskAnalyzer"
    /\ NumColumns(call.returns_data) = 2
    /\ Len(call.weights) = 1
    /\ result.tag = "raise"
    /\ self = "None"

(* C14: calculate_risk_metrics returns its seven entries whatever the      *)
(* values of the single entries: each entry is what its own computation    *)
(* gives, and a NaN or infinite entry leaves the other entries as they are. *)
C14_ReportEntriesIndependent ==
    call.op = "calculate_risk_metrics" =>
        /\ result.tag = "return"
        /\ DOMAIN result.val = {"volatility", "var_95", "es_95", "skewness",
                                "kurtosis", "max_drawdown", "sortino_ratio"}
        /\ result.val.volatility = SMul(Series_std(portfolio_returns),
                                         np_sqrt(Rat(252, 1)))
        /\ result.val.var_95 = calculate_var(portfolio_returns, Rat(19, 20),
                                             "historical").val
        /\ result.val.es_95 = calculate_expected_shortfall(
                                  portfolio_returns, Rat(19, 20)).val
        /\ result.val.skewness = Series_skew(portfolio_returns)
        /\ result.val.kurtosis = Series_kurtosis(portfolio_returns)
        /\ result.val.max_drawdown
               = calculate_max_drawdown(portfolio_returns).val
        /\ result.val.sortino_ratio
               = calculate_sortino_ratio(portfolio_returns, Rat(1, 50),
                                         Zero).val

(* a report whose Sortino entry is NaN while volatility, VaR, shortfall    *)
(* and drawdown are finite                                                 *)
C14_Witness ==
    /\ call.op = "calculate_risk_metrics"
    /\ result.tag = "return"
    /\ Len(portfolio_returns) = 3
    /\ ~IsFinite(result.val.sortino_ratio.ssq)
    /\ IsFinite(result.val.volatility.ssq)
    /\ IsFinite(result.val.var_95)
    /\ IsFinite(result.val.es_95)
    /\ IsFinite(result.val.max_drawdown)

AnalyzerOperations ==
    {"calculate_var", "calculate_expected_shortfall", "calculate_max_drawdown",
     "calculate_sortino_ratio", "calculate_risk_metrics"}

(* what the call c returns on an analyzer freshly constructed from the     *)
(* frame r and the weights w                                               *)
OnFreshAnalyzer(r, w, c) ==
    CASE c.op = "calculate_var" ->
             calculate_var(DataFrame_dot(r, w).val, c.confidence_level,
                           c.method)
      [] c.op = "calculate_expected_shortfall" ->
             calculate_expected_shortfall(DataFrame_dot(r, w).val,
                                          c.confidence_level)
      [] c.op = "calculate_max_drawdown" ->
             calculate_max_drawdown(DataFrame_dot(r, w).val)
      [] c.op = "calculate_sortino_ratio" ->
             calculate_sortino_ratio(DataFrame_dot(r, w).val,
                                     c.risk_free_rate, c.target_return)
      [] c.op = "calculate_risk_metrics" ->
             calculate_risk_metrics(DataFrame_dot(r, w).val)

(* C21: no operation of an existing analyzer changes its returns, its      *)
(* weights or its cached portfolio_returns, whether the operation returns  *)
(* or raises; and after any sequence of operations a call gives what the   *)
(* same call gives on an analyzer freshly constructed from the same frame  *)
(* and weights.                                                            *)
C21_OperationsLeaveAnalyzerUnchanged ==
    /\ [][self = "RiskAnalyzer" =>
             /\ self' = "RiskAnalyzer"
             /\ returns' = returns
             /\ weights' = weights
             /\ portfolio_returns' = portfolio_returns]_vars
    /\ [](call.op \in AnalyzerOperations =>
             result = OnFreshAnalyzer(returns, weights, call))

(* a call that raised on an analyzer whose three-period series is not in   *)
(* ascending order and is still the product of its frame and weights       *)
C21_Witness ==
    /\ self = "RiskAnalyzer"
    /\ call.op = "calculate_var"
    /\ result.tag = "raise"
    /\ Len(portfolio_returns) = 3
    /\ portfolio_returns # np_sort(portfolio_returns)
    /\ portfolio_returns = DataFrame_dot(returns, weights).val

(* C22: for c in [0, 1] the minimum return is at or below                  *)
(* -VaR_historical(c), so the tail that calculate_expected_shortfall(c)    *)
(* averages is not empty, and the shortfall is at least                    *)
(* calculate_var(c, 'historical').                                         *)
C22_ShortfallAtLeastVar ==
    (/\ call.op = "calculate_expected_shortfall"
     /\ FLe(Zero, call.confidence_level)
     /\ FLe(call.confidence_level, One))
    => /\ result.tag = "return"
       /\ calculate_var(portfolio_returns, call.confidence_level,
                        "historical").tag = "return"
       /\ LET threshold == LinearQuantile(portfolio_returns,
                                          FSub(One, call.confidence_level))
          IN  /\ calculate_var(portfolio_returns, call.confidence_level,
                               "historical").val = FNeg(threshold)
              /\ FLe(Series_min(portfolio_returns), threshold)
              /\ TailCount(portfolio_returns, threshold) >= 1
              /\ FLe(FNeg(threshold), result.val)

(* the level 1 on three returns that are not all equal: the tail is the    *)
(* minimum alone and the shortfall equals the VaR                          *)
C22_Witness ==
    /\ call.op = "calculate_expected_shortfall"
    /\ call.confidence_level = One
    /\ result.tag = "return"
    /\ Len(portfolio_returns) = 3
    /\ TailCount(portfolio_returns, Series_min(portfolio_returns)) = 1
    /\ result.val = FNeg(Series_min(portfolio_returns))
    /\ result.val = calculate_var(portfolio_returns, One, "historical").val

----------------------------------------------------------------------------
(* Properties of the PortfolioOptimizer *)

Returned(op) == pc = "idle" /\ call.op = op /\ result.tag = "return"

Tolerance == Rat(1, 1000000)

(* C1: for a return series with at least one asset and 2 periods and no    *)
(* extra constraints, the weights optimize_sharpe_ratio returns sum to 1   *)
(* within 1e-6 and are each >= -1e-6, converged or not.                    *)
C1_SharpeWeightsFeasible ==
    (/\ pc = "idle"
     /\ call.op = "optimize_sharpe_ratio"
     /\ call.constraints = None
     /\ Len(returns) >= 2)
    => /\ result.tag = "return"
       /\ FLe(FSub(One, Tolerance), SumSeq(result.val.weights))
       /\ FLe(SumSeq(result.val.weights), FAdd(One, Tolerance))
       /\ \A i \in 1..Len(result.val.weights) :
              FLe(FNeg(Tolerance), result.val.weights[i])

MinMean ==
    CHOOSE m \in {mean_returns[j] : j \in 1..Len(mean_returns)} :
        \A j \in 1..Len(mean_returns) : FLe(m, mean_returns[j])

MaxMean ==
    CHOOSE m \in {mean_returns[j] : j \in 1..Len(mean_returns)} :
        \A j \in 1..Len(mean_returns) : FLe(mean_returns[j], m)

FrontierShape(points, n) ==
    /\ Len(points) = n
    /\ \A i \in 1..(n - 1) : FLe(points[i].return, points[i + 1].return)
    /\ \A i \in 1..(n - 2) :
           FSub(points[i + 1].return, points[i].return)
               = FSub(points[i + 2].return, points[i + 1].return)
    /\ MinMean = MaxMean => \A i \in 1..n : points[i].return = MinMean

(* C2 as stated: efficient_frontier(n) returns n points in sweep order,    *)
(* targets non-decreasing and evenly spaced, the first at min(mu) and the  *)
(* last at max(mu); equal means give n identical targets.                  *)
C2_FrontierFromMinToMax ==
    Returned("efficient_frontier") =>
        /\ FrontierShape(result.val, call.num_portfolios)
        /\ call.num_portfolios >= 1 =>
               /\ result.val[1].return = MinMean
               /\ result.val[call.num_portfolios].return = MaxMean

(* C2 amended: as above, but the last target is max(mu) only when n >= 2;  *)
(* a single point has the target min(mu).                                  *)
C2_FrontierFromMinToMaxFromTwoPoints ==
    Returned("efficient_frontier") =>
        /\ FrontierShape(result.val, call.num_portfolios)
        /\ call.num_portfolios >= 1 => result.val[1].return = MinMean
        /\ call.num_portfolios >= 2 =>
               result.val[call.num_portfolios].return = MaxMean

(* a three-point sweep over distinct means *)
C2_Witness ==
    /\ Returned("efficient_frontier")
    /\ call.num_portfolios = 3
    /\ FLt(result.val[1].return, result.val[2].return)
    /\ FLt(result.val[2].return, result.val[3].return)
    /\ result.val[3].return = MaxMean

(* C3: each frontier point's weights achieve its target return, and no    *)
(* weight vector with sum 1, no negative entry and the same target return  *)
(* has a lower volatility.                                                 *)
C3_FrontierPointsMinimal ==
    (Returned("efficient_frontier") /\ Len(returns) >= 2) =>
        \A i \in 1..Len(result.val) :
            /\ Dot(mean_returns, result.val[i].weights) = result.val[i].return
            /\ \A w \in WeightGrid(Len(mean_returns),
                                   FrontierDen(call.num_portfolios)) :
                   (/\ SumSeq(w) = One
                    /\ Dot(mean_returns, w) = result.val[i].return)
                   => SLe(result.val[i].volatility,
                          np_sqrt(QuadForm(cov_matrix, w)))

(* C13: a return series with fewer than 2 periods is rejected when the    *)
(* PortfolioOptimizer is constructed, so no optimizer exists over such a   *)
(* series and the solver is never called on one.                           *)
C13_ShortSeriesRejected ==
    /\ (call.op = "PortfolioOptimizer" /\ Len(call.returns_data) < 2)
       => result.tag = "raise"
    /\ self = "PortfolioOptimizer" => Len(returns) >= 2
    /\ minimize_calls # <<>> => Len(returns) >= 2

(* C15: when the solver stops without converging, optimize_sharpe_ratio   *)
(* raises nothing and its return value carries, besides the iterate and    *)
(* its Sharpe ratio, a report that the solver did not converge.            *)
C15_NonConvergenceReported ==
    (/\ pc = "idle"
     /\ call.op = "optimize_sharpe_ratio"
     /\ minimize_calls # <<>>
     /\ ~minimize_calls[1].result.success)
    => /\ result.tag = "return"
       /\ result.val.weights = minimize_calls[1].result.x
       /\ "success" \in DOMAIN result.val
       /\ result.val.success = FALSE

(* C16: at a weight vector with zero volatility the objective of          *)
(* optimize_sharpe_ratio is larger than at every weight vector with        *)
(* positive volatility, whatever the sign of w'mu - r_f.                   *)
C16_ZeroVolatilityPenalised ==
    (pc = "optimize_sharpe_ratio" /\ Len(returns) >= 2) =>
        \A w, v \in WeightGrid(NumColumns(returns), WeightDen) :
            (/\ QuadForm(cov_matrix, w) = Zero
             /\ FLt(Zero, QuadForm(cov_matrix, v)))
            => SLt(negative_sharpe_ratio(mean_returns, cov_matrix,
                                         call.risk_free_rate, v),
                   negative_sharpe_ratio(mean_returns, cov_matrix,
                                         call.risk_free_rate, w))

IdenticalAssets ==
    /\ NumColumns(returns) = 2
    /\ \A t \in 1..Len(returns) : returns[t][1] = returns[t][2]

(* (w'mu - r_f) / sqrt(w'Sigma w) from the optimizer's mu and Sigma *)
SharpeAt(w, risk_free_rate) ==
    SDiv(Surd(FSub(Dot(mean_returns, w), risk_free_rate)),
         np_sqrt(QuadForm(cov_matrix, w)))

(* C17: for two assets with identical return series over at least 2       *)
(* periods, the Sharpe ratio optimize_sharpe_ratio returns is that of      *)
(* either asset held alone, and the returned weights sum to 1 within 1e-6  *)
(* and are each >= -1e-6.                                                  *)
C17_IdenticalAssetsSharpe ==
    (/\ Returned("optimize_sharpe_ratio")
     /\ Len(returns) >= 2
     /\ IdenticalAssets)
    => /\ result.val.sharpe = SharpeAt(<<One, Zero>>, call.risk_free_rate)
       /\ result.val.sharpe = SharpeAt(<<Zero, One>>, call.risk_free_rate)
       /\ FLe(FSub(One, Tolerance), SumSeq(result.val.weights))
       /\ FLe(SumSeq(result.val.weights), FAdd(One, Tolerance))
       /\ \A i \in 1..Len(result.val.weights) :
              FLe(FNeg(Tolerance), result.val.weights[i])

(* mu and Sigma recomputed from the return data *)
AnnualMean == [j \in 1..NumColumns(returns) |->
                  FMul(DataFrame_mean(returns)[j], Rat(252, 1))]

AnnualCov == [i \in 1..NumColumns(returns) |->
                 [j \in 1..NumColumns(returns) |->
                     FMul(DataFrame_cov(returns)[i][j], Rat(252, 1))]]

(* C18: calculate_metrics(w) returns expected_return = w'mu, a volatility *)
(* whose square is w'Sigma w and sharpe_ratio = (w'mu - 0.02)/volatility,  *)
(* for w on or off the simplex, as given, and leaves mu and Sigma alone.   *)
C18_MetricsAreLinearQuadratic ==
    call.op = "calculate_metrics" =>
        /\ result.tag = "return"
        /\ result.val.expected_return = Dot(AnnualMean, call.weights)
        /\ result.val.volatility.ssq = QuadForm(AnnualCov, call.weights)
        /\ result.val.sharpe_ratio
               = SDiv(Surd(FSub(Dot(AnnualMean, call.weights), Rat(1, 50))),
                      [ssq |-> QuadForm(AnnualCov, call.weights)])
        /\ mean_returns = AnnualMean
        /\ cov_matrix = AnnualCov

(* weights that sum to 2, with a finite non-zero ratio *)
C18_Witness ==
    /\ call.op = "calculate_metrics"
    /\ call.weights = <<One, One>>
    /\ result.tag = "return"
    /\ IsFinite(result.val.sharpe_ratio.ssq)
    /\ result.val.sharpe_ratio.ssq # Zero
    /\ result.val.expected_return
           = FAdd(mean_returns[1], mean_returns[2])

(* the Sharpe ratio calculate_metrics reports for the returned weights *)
MetricsSharpe ==
    calculate_metrics(mean_returns, cov_matrix,
                      result.val.weights).val.sharpe_ratio

CallerConstraints ==
    IF call.constraints.is_none THEN <<>> ELSE call.constraints.items

(* C20: the solver of optimize_sharpe_ratio is handed the sum-to-one and   *)
(* the long-only constraint followed by the caller's constraints in the    *)
(* caller's order (none for None), and the caller's list is unchanged.     *)
C20_BaseThenCallerConstraints ==
    [][(pc = "optimize_sharpe_ratio" /\ pc' = "idle") =>
          /\ call' = call
          /\ Len(minimize_calls') = 1
          /\ minimize_calls'[1].constraints
                 = <<[type |-> "eq", fun |-> "np.sum(x) - 1", arg |-> Zero],
                     [type |-> "ineq", fun |-> "x", arg |-> Zero]>>
                   \o CallerConstraints]_vars

(* two caller constraints passed on in the caller's order *)
C20_Witness ==
    /\ pc = "idle"
    /\ call.op = "optimize_sharpe_ratio"
    /\ Len(call.constraints.items) = 2
    /\ Len(minimize_calls) = 1
    /\ Len(minimize_calls[1].constraints) = 4
    /\ minimize_calls[1].constraints[3] = call.constraints.items[1]
    /\ minimize_calls[1].constraints[4] = call.constraints.items[2]
    /\ call.constraints.items[1] # call.constraints.items[2]

====
